---- MODULE Spec2Model ----
(***************************************************************************)
(* prune_dir_by_age.py: delete (or preview) the files below a target       *)
(* directory that are older than a cutoff, log every action as one CSV row *)
(* and optionally remove the directories that are empty afterwards.        *)
(*                                                                         *)
(* The filesystem is a map from resolved (absolute) paths to entries.  A   *)
(* path is a sequence of components, as pathlib's Path.parts; the process  *)
(* runs in Cwd, the target is given as a relative path and a log directory *)
(* may be given as a relative or as an absolute path, so that the same     *)
(* file can be spelled in two ways and Path.resolve() is what makes the    *)
(* two spellings equal.                                                    *)
(***************************************************************************)
EXTENDS Integers, Sequences, FiniteSets, TLC

\* ---------------------------------------------------------------- bounds
\* Number of entries (files and directories) below the target before the run.
MaxEntries == 3
\* Number of OS-level failures (stat, unlink, iterdir, rmdir, open) per run.
MaxFaults == 1
\* Number of files another process adds to the tree while the run is going on.
MaxEnvAdds == 1

\* ------------------------------------------------------------------ time
\* Modification times and the clock are small integers; Now is the value
\* datetime.now() returns during the run, the latest of the times.
Times == {0, 1}
Now == CHOOSE t \in Times : \A u \in Times : u <= t
\* Values of --mdays (an int, negative values are accepted by argparse); the
\* cutoff Now - mdays lies above, at and below the modification times.
MDays == {-1, 0, 1}

\* ----------------------------------------------------------------- paths
Cwd == <<"/", "w">>
\* The positional argument `target`, a relative path.
TargetArg == <<"t">>
\* Path.resolve(): an absolute path is kept, a relative one is taken from Cwd.
Resolve(p) == IF p # <<>> /\ p[1] = "/" THEN p ELSE Cwd \o p

\* Path.__truediv__ with a single name.
Join(p, name) == p \o <<name>>
\* Path.name
Name(p) == p[Len(p)]
\* Path.parent of a resolved path
Parent(p) == SubSeq(p, 1, Len(p) - 1)
\* q lies strictly below p
IsBelow(q, p) == Len(q) > Len(p) /\ SubSeq(q, 1, Len(p)) = p

TRoot == Resolve(TargetArg)
\* A directory outside the target tree.
ORoot == Resolve(<<"o">>)

FileNames == {"x.tmp", "x.log"}
\* Name of the log when --log-file-name is absent (cleanup-<target>_<time>.csv).
AutoLogName == "cleanup.csv"
\* Name of a file another process creates.
EnvFileName == "n.new"

\* Directories that may exist below the target.
SubDirUniverse ==
    { Join(TRoot, "a"), Join(Join(TRoot, "a"), "b"), Join(Join(Join(TRoot, "a"), "b"), "c") }
DirUniverse == {TRoot, ORoot} \cup SubDirUniverse
FileUniverse ==
    { Join(d, n) : d \in DirUniverse, n \in FileNames \cup {AutoLogName, EnvFileName} }
Universe == DirUniverse \cup FileUniverse

\* ------------------------------------------------------------ filesystem
NoEntry == [kind |-> "none", mtime |-> 0, gen |-> 0]
\* gen 0: the entry was there before the run; gen 1: created during the run.
DirEntry(g) == [kind |-> "dir", mtime |-> 0, gen |-> g]
FileEntry(t, g) == [kind |-> "file", mtime |-> t, gen |-> g]

Lookup(f, p) == IF p \in DOMAIN f THEN f[p] ELSE NoEntry
\* Path.exists(), Path.is_dir(), Path.is_file() of a path as spelled
Exists(f, p) == Lookup(f, Resolve(p)).kind # "none"
IsDir(f, p) == Lookup(f, Resolve(p)).kind = "dir"
IsFile(f, p) == Lookup(f, Resolve(p)).kind = "file"
\* The resolved paths of the entries directly inside directory p (resolved).
Children(f, p) == { q \in DOMAIN f : f[q].kind # "none" /\ Len(q) > 1 /\ Parent(q) = p }
\* The resolved paths of all entries below directory p (resolved).
Descendants(f, p) == { q \in DOMAIN f : f[q].kind # "none" /\ IsBelow(q, p) }

\* Path.__lt__: lexicographic on the components, each compared as a string.
NameRank ==
    ("/" :> 0) @@ ("a" :> 1) @@ ("b" :> 2) @@ ("c" :> 3) @@ ("cleanup.csv" :> 4)
    @@ ("missing" :> 5) @@ ("n.new" :> 6) @@ ("o" :> 7) @@ ("t" :> 8) @@ ("w" :> 9)
    @@ ("x.log" :> 10) @@ ("x.tmp" :> 11)

RECURSIVE PathLess(_, _)
PathLess(p, q) ==
    IF p = <<>> THEN q # <<>>
    ELSE IF q = <<>> THEN FALSE
    ELSE IF NameRank[Head(p)] # NameRank[Head(q)] THEN NameRank[Head(p)] < NameRank[Head(q)]
    ELSE PathLess(Tail(p), Tail(q))

\* sorted(paths)
RECURSIVE SortPaths(_)
SortPaths(S) ==
    IF S = {} THEN <<>>
    ELSE LET m == CHOOSE x \in S : \A y \in S \ {x} : PathLess(x, y)
         IN <<m>> \o SortPaths(S \ {m})

\* target.rglob("*"): every entry below the target, spelled from the target
\* argument; the target itself is not among them.
Spell(q) == TargetArg \o SubSeq(q, Len(TRoot) + 1, Len(q))
\* Faulty variant: a listing that yields the target too, as glob("**") does.
RGlob_WithTarget(f) == { Spell(q) : q \in Descendants(f, TRoot) \cup {TRoot} }
RGlob(f) == { Spell(q) : q \in Descendants(f, TRoot) }

\* ----------------------------------------------------------------- regex
\* The characters of the strings that regular expressions are applied to,
\* and of the patterns themselves.
Chars ==
    ("x.tmp" :> <<"x", ".", "t", "m", "p">>) @@ ("x.log" :> <<"x", ".", "l", "o", "g">>)
    @@ ("cleanup.csv" :> <<"c", "l", "e", "a", "n", "u", "p", ".", "c", "s", "v">>)
    @@ ("n.new" :> <<"n", ".", "n", "e", "w">>)
    @@ ("\\.tmp$" :> <<"\\", ".", "t", "m", "p", "$">>) @@ ("log" :> <<"l", "o", "g">>)
    @@ ("[" :> <<"[">>) @@ ("(" :> <<"(">>)
    @@ ("a" :> <<"a">>) @@ ("b" :> <<"b">>) @@ ("c" :> <<"c">>) @@ ("t" :> <<"t">>)

\* re.compile(pattern) raises re.error: an unterminated character set or group.
ReError(pattern) ==
    LET cs == Chars[pattern]
    IN \E i \in 1..Len(cs) :
          \/ cs[i] = "[" /\ ~ \E j \in (i + 1)..Len(cs) : cs[j] = "]"
          \/ cs[i] = "(" /\ ~ \E j \in (i + 1)..Len(cs) : cs[j] = ")"

\* The literal text of a pattern: escapes and the end anchor taken out.
Literal(cs) == SelectSeq(cs, LAMBDA c : c # "\\" /\ c # "$")
Anchored(cs) == cs # <<>> /\ cs[Len(cs)] = "$"

\* p.search(name): the pattern is found anywhere in the name (at its end
\* when the pattern ends in $).
Search(pattern, name) ==
    LET cs == Chars[pattern]
        lit == Literal(cs)
        s == Chars[name]
        At(i) == i + Len(lit) - 1 <= Len(s) /\ SubSeq(s, i, i + Len(lit) - 1) = lit
    IN IF Anchored(cs) THEN Len(lit) <= Len(s) /\ At(Len(s) - Len(lit) + 1)
       ELSE \E i \in 1..(Len(s) + 1) : At(i)

\* compile_patterns: the patterns that compile, in the order given.
compile_patterns(regexes) == SelectSeq(regexes, LAMBDA r : ~ ReError(r))

\* matches_any
matches_any(name, patterns) == \E i \in 1..Len(patterns) : Search(patterns[i], name)

\* The values of the repeated --regex option.
RegexArgs == { <<>>, <<"[", "\\.tmp$">>, <<"[", "(">> }

\* ------------------------------------------------------------------ state
VARIABLES
    args,       \* the parsed command line (argparse.Namespace)
    fs,         \* the filesystem: resolved path -> entry
    log,        \* the data rows written to the CSV log, in order
    pc,         \* where main() is
    files,      \* prune_files: the sorted listing being walked
    fi,         \* prune_files: index of the next element of files
    subdirs,    \* prune_empty_dirs: the depth-sorted listing being walked
    di,         \* prune_empty_dirs: index of the next element of subdirs
    fs0,        \* history: the filesystem before the run
    run,        \* history: 1 in the first run of the program, 2 in a second one
    prevLog,    \* history: the rows the previous run wrote
    faulted,    \* history: the OS calls that failed, as <<call, path>>
    envAdds     \* history: number of files added by another process

vars == <<args, fs, log, pc, files, fi, subdirs, di, fs0, run, prevLog, faulted, envAdds>>
\* what a run of the program never changes
hist == <<fs0, run, prevLog>>

\* The combinations of --log-dir and --log-file-name in the model; <<>> and ""
\* are the absent options (None).
LogArgs ==
    { [log_dir |-> <<>>, log_file_name |-> ""],
      [log_dir |-> Cwd \o <<"t", "a">>, log_file_name |-> "x.tmp"],
      [log_dir |-> <<"o">>, log_file_name |-> ""],
      [log_dir |-> <<"missing">>, log_file_name |-> ""] }

\* main: log_dir = Path(args.log_dir) if args.log_dir else target
LogDir == IF args.log_dir # <<>> THEN args.log_dir ELSE TargetArg

\* make_log_path
make_log_path(log_dir, log_file_name) ==
    IF log_file_name # "" THEN Join(log_dir, log_file_name)
    ELSE Join(log_dir, AutoLogName)

LogPath == make_log_path(LogDir, args.log_file_name)

\* main: cutoff = datetime.now() - timedelta(days=args.mdays)
Cutoff == Now - args.mdays

\* main: patterns = compile_patterns(args.regex)
Patterns == compile_patterns(args.regex)

\* ------------------------------------------------------------------- rows
\* write_csv_row: Date, File, LastWriteTime, Message.  LastWriteTime is <<t>>
\* for a file and <<>> (the empty string) for a directory; Message is a tag
\* and, for an error, the text of the OS error.
Row(file_path, last_write_time, tag, err) ==
    [date |-> Now, file |-> file_path, mtime |-> last_write_time, msg |-> tag, err |-> err]

OsErrors == {"EACCES", "ENOTEMPTY"}

\* ------------------------------------------------------------------- Init
\* The paths an entry can have below the target before the run.
InitPaths ==
    SubDirUniverse \cup { Join(d, n) : d \in {TRoot} \cup SubDirUniverse, n \in FileNames }

\* The sets of at most n such paths in which every entry's parent exists.
RECURSIVE Trees(_)
Trees(n) ==
    IF n = 0 THEN {{}}
    ELSE LET prev == Trees(n - 1)
         IN prev \cup UNION { { T \cup {e} : e \in { x \in InitPaths \ T : Parent(x) \in T \cup {TRoot} } }
                              : T \in prev }

MkFs(T, m) ==
    [ p \in Universe |->
        IF p \in {TRoot, ORoot} THEN DirEntry(0)
        ELSE IF p \notin T THEN NoEntry
        ELSE IF p \in SubDirUniverse THEN DirEntry(0)
        ELSE FileEntry(m[p], 0) ]

Init ==
    /\ args \in [ mdays : MDays, dry_run : BOOLEAN, prune_empty_dirs : BOOLEAN,
                   regex : RegexArgs,
                   log_dir : { a.log_dir : a \in LogArgs },
                   log_file_name : { a.log_file_name : a \in LogArgs } ]
    /\ [log_dir |-> args.log_dir, log_file_name |-> args.log_file_name] \in LogArgs
    /\ \E T \in Trees(MaxEntries) :
          \E m \in [ T \ SubDirUniverse -> Times ] : fs = MkFs(T, m)
    /\ fs0 = fs
    /\ run = 1
    /\ prevLog = <<>>
    /\ log = <<>>
    /\ pc = "start"
    /\ files = <<>>
    /\ fi = 1
    /\ subdirs = <<>>
    /\ di = 1
    /\ faulted = {}
    /\ envAdds = 0

\* ------------------------------------------------------------ OS calls
\* An OS call may fail for a reason the model does not track (permissions,
\* I/O errors); the history variable faulted records the calls that did.
CanFault == Cardinality(faulted) < MaxFaults
Fault(call, path) == faulted' = faulted \cup {<<call, path>>}

\* Path.unlink() and Path.rmdir() when they succeed
Unlink(f, p) == [f EXCEPT ![Resolve(p)] = NoEntry]
Rmdir(f, p) == [f EXCEPT ![Resolve(p)] = NoEntry]
\* Faulty variant: a removal that takes the directory with what is in it.
RmdirRefused_Never(f, p) == FALSE
\* rmdir(2) refuses a directory that has entries
RmdirRefused(f, p) == Children(f, Resolve(p)) # {}
\* Faulty variant: an emptiness test that looks at files only.
HasEntries_FilesOnly(f, p) == \E q \in Children(f, Resolve(p)) : f[q].kind = "file"
\* any(d.iterdir())
HasEntries(f, p) == Children(f, Resolve(p)) # {}

\* ------------------------------------------------------------------ main
\* validate_dirs: sys.exit(1)
ValidateFail ==
    /\ pc = "start"
    /\ ~ IsDir(fs, TargetArg) \/ ~ IsDir(fs, LogDir)
    /\ pc' = "exit1"
    /\ UNCHANGED <<args, fs, log, files, fi, subdirs, di, hist, faulted, envAdds>>

\* main: if log_path.exists(): log_path.unlink()
RemoveOldLog(f) == IF Exists(f, LogPath) THEN Unlink(f, LogPath) ELSE f

\* main: log_path.open("w") creates the log, with the clock's time
OpenLog(f) == [f EXCEPT ![Resolve(LogPath)] = FileEntry(Now, 1)]

\* main: log_path.unlink() or log_path.open("w") raises: the exception is
\* not caught and the run ends with a traceback.
LogSetupCrash ==
    /\ pc = "start"
    /\ IsDir(fs, TargetArg) /\ IsDir(fs, LogDir)
    /\ CanFault
    /\ \/ /\ Exists(fs, LogPath)
          /\ Fault("log_unlink", LogPath)
          /\ fs' = fs
       \/ /\ Fault("log_open", LogPath)
          /\ fs' = RemoveOldLog(fs)
    /\ pc' = "crashed"
    /\ UNCHANGED <<args, log, files, fi, subdirs, di, hist, envAdds>>

\* main, up to the first iteration of prune_files: validate_dirs passes, an
\* old file at the log path is removed, the log is opened and its header
\* written (the header is not part of `log`, which holds the data rows), and
\* prune_files takes its listing: for file in sorted(target.rglob("*")).
Setup ==
    /\ pc = "start"
    /\ IsDir(fs, TargetArg) /\ IsDir(fs, LogDir)
    /\ ~ IsDir(fs, LogPath)
    /\ fs' = OpenLog(RemoveOldLog(fs))
    /\ log' = <<>>
    /\ files' = SortPaths(RGlob(fs'))
    /\ fi' = 1
    /\ pc' = "file"
    /\ UNCHANGED <<args, subdirs, di, hist, faulted, envAdds>>

\* ----------------------------------------------------------- prune_files
File == files[fi]
\* Faulty variant: the paths compared as spelled, without resolve().
is_log_Unresolved(file) == file = LogPath
\* file.resolve() == log_path.resolve()
is_log(file) == Resolve(file) = Resolve(LogPath)
\* stat.st_mtime
Mtime(file) == Lookup(fs, Resolve(file)).mtime
\* Faulty variant: a file at the cutoff counts as old.
Retained_Strict(mtime) == mtime > Cutoff
\* mtime >= cutoff
Retained(mtime) == mtime >= Cutoff
\* Faulty variant: an empty pattern list filters every name out.
Filtered_AlsoWhenEmpty(name) == ~ matches_any(name, Patterns)
\* patterns and not matches_any(file.name, patterns)
Filtered(name) == Patterns # <<>> /\ ~ matches_any(name, Patterns)
\* the tests of the loop body that `continue` without a row
NotCandidate(file) ==
    \/ ~ IsFile(fs, file)
    \/ is_log(file)
    \/ Retained(Mtime(file))
    \/ Filtered(Name(file))

InFileLoop == pc = "file" /\ fi <= Len(files)
NextFile == fi' = fi + 1 /\ pc' = "file"

\* prune_files: the entry is skipped (not a file, the log, young, filtered)
FileSkip ==
    /\ InFileLoop
    /\ NotCandidate(File)
    /\ NextFile
    /\ UNCHANGED <<args, fs, log, files, subdirs, di, hist, faulted, envAdds>>

\* prune_files: file.stat() raises OSError
FileStatError ==
    /\ InFileLoop
    /\ IsFile(fs, File) /\ ~ is_log(File)
    /\ CanFault /\ Fault("stat", File)
    /\ NextFile
    /\ UNCHANGED <<args, fs, log, files, subdirs, di, hist, envAdds>>

\* Faulty variant: the dry run deletes the file it previews.
FileDryRun_Deletes ==
    /\ InFileLoop
    /\ ~ NotCandidate(File)
    /\ args.dry_run
    /\ fs' = Unlink(fs, File)
    /\ log' = Append(log, Row(File, <<Mtime(File)>>, "dry-run", ""))
    /\ NextFile
    /\ UNCHANGED <<args, files, subdirs, di, hist, faulted, envAdds>>

\* prune_files: if dry_run
FileDryRun ==
    /\ InFileLoop
    /\ ~ NotCandidate(File)
    /\ args.dry_run
    /\ log' = Append(log, Row(File, <<Mtime(File)>>, "dry-run", ""))
    /\ NextFile
    /\ UNCHANGED <<args, fs, files, subdirs, di, hist, faulted, envAdds>>

\* Faulty variant: the deletion is not logged.
FileDelete_Unlogged ==
    /\ InFileLoop
    /\ ~ NotCandidate(File)
    /\ ~ args.dry_run
    /\ fs' = Unlink(fs, File)
    /\ NextFile
    /\ UNCHANGED <<args, log, files, subdirs, di, hist, faulted, envAdds>>

\* prune_files: file.unlink() succeeds
FileDelete ==
    /\ InFileLoop
    /\ ~ NotCandidate(File)
    /\ ~ args.dry_run
    /\ fs' = Unlink(fs, File)
    /\ log' = Append(log, Row(File, <<Mtime(File)>>, "deleted", ""))
    /\ NextFile
    /\ UNCHANGED <<args, files, subdirs, di, hist, faulted, envAdds>>

\* Faulty variant: the OSError of unlink is not caught.
FileDeleteError_Aborts ==
    /\ InFileLoop
    /\ ~ NotCandidate(File)
    /\ ~ args.dry_run
    /\ CanFault /\ Fault("unlink", File)
    /\ pc' = "crashed"
    /\ UNCHANGED <<args, fs, log, files, fi, subdirs, di, hist, envAdds>>

\* prune_files: file.unlink() raises OSError
FileDeleteError ==
    /\ InFileLoop
    /\ ~ NotCandidate(File)
    /\ ~ args.dry_run
    /\ CanFault /\ Fault("unlink", File)
    /\ log' = Append(log, Row(File, <<Mtime(File)>>, "error deleting", "EACCES"))
    /\ NextFile
    /\ UNCHANGED <<args, fs, files, subdirs, di, hist, envAdds>>

\* ------------------------------------------------------ prune_empty_dirs
\* The orders in which the elements of S can be enumerated.
Orders(S) ==
    { s \in [1..Cardinality(S) -> S] : \A i, j \in 1..Cardinality(S) : i # j => s[i] # s[j] }

\* Faulty variant: reverse=True left out.
sort_by_depth_Ascending(S) ==
    { s \in Orders(S) : \A i, j \in 1..Len(s) : i < j => Len(s[i]) <= Len(s[j]) }

\* sorted(..., key=lambda d: len(d.parts), reverse=True): deepest first; the
\* sort is stable and rglob's order among directories of one depth is the
\* operating system's, so every depth-descending order can come out.
sort_by_depth(S) ==
    { s \in Orders(S) : \A i, j \in 1..Len(s) : i < j => Len(s[i]) >= Len(s[j]) }

\* d for d in target.rglob("*") if d.is_dir()
ListedDirs(f) == { d \in RGlob(f) : IsDir(f, d) }

\* main: prune_files returns and args.prune_empty_dirs is not set: the log
\* is closed and its path printed.
FilesDone ==
    /\ pc = "file" /\ fi > Len(files)
    /\ ~ args.prune_empty_dirs
    /\ pc' = "done"
    /\ UNCHANGED <<args, fs, log, files, fi, subdirs, di, hist, faulted, envAdds>>

\* main: prune_files returns and prune_empty_dirs takes its listing once:
\* subdirs = sorted(...)
DirScan ==
    /\ pc = "file" /\ fi > Len(files)
    /\ args.prune_empty_dirs
    /\ subdirs' \in sort_by_depth(ListedDirs(fs))
    /\ di' = 1
    /\ pc' = "dir_check"
    /\ UNCHANGED <<args, fs, log, files, fi, hist, faulted, envAdds>>

Dir == subdirs[di]
InDirLoop == pc = "dir_check" /\ di <= Len(subdirs)
NextDir == di' = di + 1 /\ pc' = "dir_check"

\* prune_empty_dirs: d.iterdir() raises OSError
DirListError ==
    /\ InDirLoop
    /\ CanFault /\ Fault("iterdir", Dir)
    /\ NextDir
    /\ UNCHANGED <<args, fs, log, files, fi, subdirs, hist, envAdds>>

\* prune_empty_dirs: if any(d.iterdir()): continue
DirNotEmpty ==
    /\ InDirLoop
    /\ HasEntries(fs, Dir)
    /\ NextDir
    /\ UNCHANGED <<args, fs, log, files, fi, subdirs, hist, faulted, envAdds>>

\* prune_empty_dirs: if dry_run
DirDryRun ==
    /\ InDirLoop
    /\ ~ HasEntries(fs, Dir)
    /\ args.dry_run
    /\ log' = Append(log, Row(Dir, <<>>, "dry-run empty dir", ""))
    /\ NextDir
    /\ UNCHANGED <<args, fs, files, fi, subdirs, hist, faulted, envAdds>>

\* prune_empty_dirs: the directory was found empty and d.rmdir() is next
DirFoundEmpty ==
    /\ InDirLoop
    /\ ~ HasEntries(fs, Dir)
    /\ ~ args.dry_run
    /\ pc' = "dir_rmdir"
    /\ UNCHANGED <<args, fs, log, files, fi, subdirs, di, hist, faulted, envAdds>>

\* prune_empty_dirs: d.rmdir() succeeds
DirRemove ==
    /\ pc = "dir_rmdir"
    /\ ~ RmdirRefused(fs, Dir)
    /\ fs' = Rmdir(fs, Dir)
    /\ log' = Append(log, Row(Dir, <<>>, "removed empty dir", ""))
    /\ NextDir
    /\ UNCHANGED <<args, files, fi, subdirs, hist, faulted, envAdds>>

\* prune_empty_dirs: d.rmdir() raises OSError (the directory got an entry
\* since it was listed, or another failure)
DirRemoveError ==
    /\ pc = "dir_rmdir"
    /\ \E e \in OsErrors :
          /\ IF e = "ENOTEMPTY" THEN RmdirRefused(fs, Dir)
             ELSE ~ RmdirRefused(fs, Dir) /\ CanFault
          /\ log' = Append(log, Row(Dir, <<>>, "error removing dir", e))
    /\ Fault("rmdir", Dir)
    /\ NextDir
    /\ UNCHANGED <<args, fs, files, fi, subdirs, hist, envAdds>>

\* prune_empty_dirs returns; the log is closed and its path printed
DirsDone ==
    /\ pc = "dir_check" /\ di > Len(subdirs)
    /\ pc' = "done"
    /\ UNCHANGED <<args, fs, log, files, fi, subdirs, di, hist, faulted, envAdds>>

\* ----------------------------------------------------------- environment
\* Another process creates a file in one of the directories being pruned,
\* at any moment of prune_empty_dirs.
EnvAddFile ==
    /\ pc \in {"dir_check", "dir_rmdir"}
    /\ envAdds < MaxEnvAdds
    /\ \E d \in SubDirUniverse :
          /\ fs[d].kind = "dir"
          /\ fs[Join(d, EnvFileName)].kind = "none"
          /\ fs' = [fs EXCEPT ![Join(d, EnvFileName)] = FileEntry(Now, 1)]
    /\ envAdds' = envAdds + 1
    /\ UNCHANGED <<args, log, pc, files, fi, subdirs, di, hist, faulted>>

Next ==
    \/ ValidateFail \/ LogSetupCrash \/ Setup
    \/ FileSkip \/ FileStatError \/ FileDryRun \/ FileDelete \/ FileDeleteError
    \/ FilesDone
    \/ DirScan \/ DirListError \/ DirNotEmpty \/ DirDryRun \/ DirFoundEmpty
    \/ DirRemove \/ DirRemoveError \/ DirsDone
    \/ EnvAddFile

Spec == Init /\ [][Next]_vars

\* ------------------------------------------------------------ second run
\* The program is started again after a dry run with --prune-empty-dirs,
\* with the same command line but without --dry-run, on the tree the dry run
\* left (a dry run that no failure and no other process disturbed).
Rerun ==
    /\ pc = "done" /\ run = 1 /\ args.dry_run /\ args.prune_empty_dirs
    /\ faulted = {} /\ envAdds = 0
    /\ args' = [args EXCEPT !.dry_run = FALSE]
    /\ run' = 2
    /\ prevLog' = log
    /\ fs0' = fs
    /\ log' = <<>>
    /\ pc' = "start"
    /\ files' = <<>> /\ fi' = 1 /\ subdirs' = <<>> /\ di' = 1
    /\ UNCHANGED <<fs, faulted, envAdds>>

InitPreview == Init /\ args.dry_run

NextRerun == Next \/ Rerun

SpecRerun == InitPreview /\ [][NextRerun]_vars

\* ================================================================ claims
\* The regular files below the target before the run (resolved paths).
OrigFiles == { q \in Descendants(fs0, TRoot) : fs0[q].kind = "file" }
LogR == Resolve(LogPath)
\* The indices of the rows written for the entry with resolved path q.
RowsOf(q) == { i \in 1..Len(log) : Resolve(log[i].file) = q }
RowsWith(q, tag) == { i \in RowsOf(q) : log[i].msg = tag }
\* The file is strictly older than the cutoff.
Old(q) == fs0[q].mtime < Cutoff
\* The patterns that compiled, taken from the command line.
ValidRegexes == { args.regex[i] : i \in { j \in 1..Len(args.regex) : ~ ReError(args.regex[j]) } }
\* The name passes the filter: no pattern, or at least one pattern matches.
Passes(q) == ValidRegexes = {} \/ \E r \in ValidRegexes : Search(r, Name(q))
StatFailed(q) == \E f \in faulted : f[1] = "stat" /\ Resolve(f[2]) = q
\* The same file as before the run, untouched.
Untouched(q) == fs[q] = fs0[q]
Gone(q) == fs[q].kind = "none"

\* C1 (as claimed): after a run, every old file that passes the filter has
\* exactly one row, "deleted" (and the file is gone) or, in a dry run, "dry-run".
C1_AsClaimed ==
    pc = "done" =>
        \A q \in OrigFiles :
            Old(q) /\ Passes(q) =>
                /\ Cardinality(RowsOf(q)) = 1
                /\ IF args.dry_run THEN RowsWith(q, "dry-run") # {}
                   ELSE RowsWith(q, "deleted") # {} /\ Gone(q)

\* C1 (amended): after a run, every old file that passes the filter, is not
\* the file at the log path and whose stat succeeded has exactly one row:
\* "dry-run" in a dry run (the file untouched); otherwise "deleted" with the
\* file gone or, when unlink failed, "error deleting" with the file in place.
C1_Amended ==
    pc = "done" =>
        \A q \in OrigFiles :
            Old(q) /\ Passes(q) /\ q # LogR /\ ~ StatFailed(q) =>
                /\ Cardinality(RowsOf(q)) = 1
                /\ IF args.dry_run THEN RowsWith(q, "dry-run") # {} /\ Untouched(q)
                   ELSE \/ RowsWith(q, "deleted") # {} /\ Gone(q)
                        \/ /\ RowsWith(q, "error deleting") # {} /\ Untouched(q)
                           /\ <<"unlink", Spell(q)>> \in faulted

\* a run that deleted an old file and logged it
C1_Witness ==
    /\ pc = "done" /\ ~ args.dry_run
    /\ \E q \in OrigFiles :
          Old(q) /\ Passes(q) /\ q # LogR /\ Gone(q) /\ RowsWith(q, "deleted") # {}

\* C2 (as claimed): a file whose mtime is at or after the cutoff gets no row
\* and is still on disk after the run, in both modes.
C2_AsClaimed ==
    pc = "done" =>
        \A q \in OrigFiles : ~ Old(q) => RowsOf(q) = {} /\ Untouched(q)

\* C2 (amended): a file whose mtime is at or after the cutoff gets no row, in
\* both modes and at every moment of the run, and is still on disk unless it
\* is the file at the log path, which log setup removes whatever its age and
\* replaces by the new log.
C2_Amended ==
    \A q \in OrigFiles :
        ~ Old(q) =>
            /\ RowsOf(q) = {}
            /\ q # LogR => Untouched(q)
            /\ q = LogR /\ pc \in {"file", "dir_check", "dir_rmdir", "done"}
                  => fs[q] = FileEntry(Now, 1)

\* a finished run that walked over a file whose mtime is the cutoff itself
C2_Witness ==
    /\ pc = "done" /\ ~ args.dry_run
    /\ \E q \in OrigFiles : q # LogR /\ fs0[q].mtime = Cutoff /\ Passes(q)
    /\ \E q \in OrigFiles : Old(q) /\ Gone(q)

\* C3 (as claimed): in a dry run every file and every directory that existed
\* before the run is still there, at every moment of the run.
C3_AsClaimed ==
    args.dry_run => \A p \in Universe : fs0[p].kind # "none" => Untouched(p)

\* C3 (amended): in a dry run every directory, and every file other than one
\* at the log path (which log setup removes and replaces by the new log also
\* in a dry run), is still there at every moment of the run, and the rows of
\* the files that would be deleted are written.
C3_Amended ==
    args.dry_run =>
        /\ \A p \in Universe : fs0[p].kind # "none" /\ p # LogR => Untouched(p)
        /\ pc = "done" =>
              \A q \in OrigFiles :
                  Old(q) /\ Passes(q) /\ q # LogR /\ ~ StatFailed(q)
                      => RowsWith(q, "dry-run") # {}

\* a finished dry run that previewed a file and an empty directory
C3_Witness ==
    /\ pc = "done" /\ args.dry_run /\ args.prune_empty_dirs
    /\ \E i \in 1..Len(log) : log[i].msg = "dry-run"
    /\ \E i \in 1..Len(log) : log[i].msg = "dry-run empty dir"

\* C4: a directory disappears only in a step in which it has no entries, and
\* when a directory that was found empty has an entry by the time rmdir runs,
\* the removal fails: the directory stays and an error row is written.
C4_OnlyEmptyRemoved ==
    [][ /\ \A d \in DirUniverse :
              fs[d].kind = "dir" /\ fs'[d].kind # "dir" => Children(fs, d) = {}
        /\ pc = "dir_rmdir" /\ pc' # "dir_rmdir" /\ HasEntries(fs, Dir) =>
              /\ fs' = fs
              /\ log' = Append(log, Row(Dir, <<>>, "error removing dir", "ENOTEMPTY")) ]_vars

\* another process put a file into a directory between the emptiness check
\* and rmdir; the removal failed and was logged
C4_Witness ==
    /\ pc = "dir_check" /\ di > 1 /\ envAdds > 0
    /\ log # <<>>
    /\ log[Len(log)] = Row(subdirs[di - 1], <<>>, "error removing dir", "ENOTEMPTY")
    /\ IsDir(fs, subdirs[di - 1])
    /\ Children(fs, Resolve(subdirs[di - 1])) = {Join(Resolve(subdirs[di - 1]), EnvFileName)}

\* The directories below the target that are still there.
DirsLeft == { d \in SubDirUniverse : fs[d].kind = "dir" }
HoldsFile(d) == \E q \in Descendants(fs, d) : fs[q].kind = "file"
RemovedRows == { i \in 1..Len(log) : log[i].msg = "removed empty dir" }

\* C5: directory pruning starts when the file phase has walked its whole
\* listing; a directory is evaluated after all directories below it; rows of
\* removed directories come children first; and after a run without
\* --dry-run in which nothing failed, every directory left below the target
\* holds a file somewhere below it (so a chain without files is gone).
C5_SinglePass ==
    /\ pc \in {"dir_check", "dir_rmdir"} => fi > Len(files)
    /\ \A i, j \in 1..Len(subdirs) : i < j => ~ IsBelow(subdirs[j], subdirs[i])
    /\ \A i, j \in RemovedRows : i < j => ~ IsBelow(log[j].file, log[i].file)
    /\ pc = "done" /\ ~ args.dry_run /\ args.prune_empty_dirs /\ faulted = {}
          => \A d \in DirsLeft : HoldsFile(d)

\* the chain a/b/c of empty directories was removed in one pass, c first
C5_Witness ==
    /\ pc = "done" /\ ~ args.dry_run /\ args.prune_empty_dirs /\ faulted = {}
    /\ \A d \in SubDirUniverse : fs0[d].kind = "dir" /\ fs[d].kind = "none"
    /\ Len(log) = Cardinality(SubDirUniverse)
    /\ \A i \in 1..Len(log) : log[i].msg = "removed empty dir" /\ Len(log[i].file) = 5 - i

\* C6 (as claimed): with --prune-empty-dirs and without --dry-run, a target
\* that has no entries left is removed and gets a "removed empty dir" row.
C6_AsClaimed ==
    pc = "done" /\ ~ args.dry_run /\ args.prune_empty_dirs /\ Children(fs, TRoot) = {}
        => fs[TRoot].kind = "none" /\ RowsWith(TRoot, "removed empty dir") # {}

\* C6 (amended): the target itself is never evaluated by directory pruning:
\* it is not in the listing, it stays a directory and no row is written for
\* it, also when it has no entries left.
C6_Amended ==
    /\ fs[TRoot].kind = "dir"
    /\ RowsOf(TRoot) = {}
    /\ \A i \in 1..Len(subdirs) : Resolve(subdirs[i]) # TRoot

\* a run that emptied the target: every file and directory below it is gone
C6_Witness ==
    /\ pc = "done" /\ ~ args.dry_run /\ args.prune_empty_dirs
    /\ Children(fs0, TRoot) # {} /\ Children(fs, TRoot) = {}
    /\ RemovedRows # {}

\* The step is one in which the OS call `call` fails.
Fails(call) == \E f \in faulted' \ faulted : f[1] = call
ErrorRow(r, path, tag) ==
    r.file = path /\ r.msg = tag /\ r.err \in OsErrors /\ r.mtime = IF tag = "error deleting" THEN <<Mtime(path)>> ELSE <<>>

\* C7, the failing step: a failed unlink or rmdir writes one error row for
\* the entry, leaves the filesystem as it is and goes on with the next entry;
\* a failed stat or iterdir writes nothing and goes on with the next entry.
C7_FailureStep ==
    /\ pc = "file" /\ Fails("unlink") =>
          /\ Len(log') = Len(log) + 1 /\ SubSeq(log', 1, Len(log)) = log
          /\ ErrorRow(log'[Len(log')], File, "error deleting")
          /\ fs' = fs /\ fi' = fi + 1 /\ pc' = "file" /\ files' = files
    /\ pc = "dir_rmdir" /\ Fails("rmdir") =>
          /\ Len(log') = Len(log) + 1 /\ SubSeq(log', 1, Len(log)) = log
          /\ ErrorRow(log'[Len(log')], Dir, "error removing dir")
          /\ fs' = fs /\ di' = di + 1 /\ pc' = "dir_check" /\ subdirs' = subdirs
    /\ pc = "file" /\ Fails("stat") =>
          log' = log /\ fs' = fs /\ fi' = fi + 1 /\ pc' = "file" /\ files' = files
    /\ pc = "dir_check" /\ Fails("iterdir") =>
          log' = log /\ fs' = fs /\ di' = di + 1 /\ pc' = "dir_check" /\ subdirs' = subdirs

\* C7, the rest of the run: the walk goes one entry at a time and the run
\* ends only when both listings are walked to their end; an entry whose
\* unlink or rmdir failed has exactly one row, an error row, and is still in
\* place; one whose stat or iterdir failed has no row.
C7_RunGoesOn ==
    /\ pc \in {"file", "dir_check", "dir_rmdir"} => fi <= Len(files) + 1 /\ di <= Len(subdirs) + 1
    /\ pc = "done" => fi = Len(files) + 1
    /\ pc = "done" /\ args.prune_empty_dirs => di = Len(subdirs) + 1
    /\ pc = "crashed" => \A f \in faulted : f[1] \in {"log_unlink", "log_open"}
    /\ \A f \in faulted :
          /\ f[1] = "unlink" =>
                /\ Cardinality(RowsOf(Resolve(f[2]))) = 1
                /\ RowsWith(Resolve(f[2]), "error deleting") # {}
                /\ IsFile(fs, f[2])
          /\ f[1] = "rmdir" =>
                /\ Cardinality(RowsOf(Resolve(f[2]))) = 1
                /\ RowsWith(Resolve(f[2]), "error removing dir") # {}
                /\ IsDir(fs, f[2])
          /\ f[1] \in {"stat", "iterdir"} => RowsOf(Resolve(f[2])) = {}

C8_LogExcluded ==
    /\ RowsOf(LogR) = {}
    /\ pc \in {"file", "dir_check", "dir_rmdir", "done"} => fs[LogR] = FileEntry(Now, 1)

\* a finished run without --dry-run whose log lies inside the target, is
\* older than the cutoff, passes the filter and was walked over
C8_Witness ==
    /\ pc = "done" /\ ~ args.dry_run
    /\ IsBelow(LogR, TRoot)
    /\ fs[LogR].mtime < Cutoff /\ Passes(LogR)
    /\ \E i \in 1..Len(files) : Resolve(files[i]) = LogR /\ files[i] # LogPath
    /\ \E i \in 1..Len(log) : log[i].msg = "deleted"

\* C9: the patterns in use are the regexes that compile; an old file (not the
\* log, stat succeeded) gets a row iff no regex compiled or one that compiled
\* is found in its name; a regex that does not compile never ends the run.
C9_Filter ==
    /\ { Patterns[i] : i \in 1..Len(Patterns) } = ValidRegexes
    /\ pc = "done" =>
          \A q \in OrigFiles :
              Old(q) /\ q # LogR /\ ~ StatFailed(q) =>
                  (RowsOf(q) # {} <=> Passes(q))
    /\ pc \in {"crashed", "exit1"} => log = <<>> /\ files = <<>>

\* every regex given was invalid and an old file was deleted all the same
C9_Witness ==
    /\ pc = "done" /\ ~ args.dry_run
    /\ args.regex # <<>> /\ ValidRegexes = {}
    /\ \E q \in OrigFiles : Old(q) /\ RowsWith(q, "deleted") # {}

\* The directories a log has rows of the given kind for.
DirsWith(rows, tag) == { rows[i].file : i \in { j \in 1..Len(rows) : rows[j].msg = tag } }
\* The entries of directory d that another process added during the run.
AddedIn(d) == { k \in Children(fs, Resolve(d)) : Name(k) = EnvFileName /\ fs[k].gen = 1 }
ListFailed(d) == <<"iterdir", d>> \in faulted

\* C10: after a dry run with --prune-empty-dirs, a directory below the target
\* has a "dry-run empty dir" row (exactly one) iff it was listed without
\* failure and had no entry at all (nothing but what another process added
\* later); a directory holding an empty subdirectory or a previewed file has
\* none; nothing is removed.  A run without --dry-run on the same tree
\* removes at least the directories the dry run previewed.
C10_Preview ==
    /\ pc = "done" /\ args.dry_run /\ args.prune_empty_dirs =>
          /\ \A d \in ListedDirs(fs) :
                IF d \in DirsWith(log, "dry-run empty dir")
                THEN /\ Children(fs, Resolve(d)) = AddedIn(d)
                     /\ Cardinality(RowsOf(Resolve(d))) = 1
                ELSE ListFailed(d) \/ Children(fs, Resolve(d)) # {}
          /\ DirsWith(log, "removed empty dir") = {}
          /\ ListedDirs(fs) = ListedDirs(fs0)
    /\ pc = "done" /\ run = 2 /\ faulted = {} /\ envAdds = 0 =>
          DirsWith(prevLog, "dry-run empty dir") \subseteq DirsWith(log, "removed empty dir")

\* the dry run previewed one directory and the run after it removed that one
\* and its parents, which the dry run had passed over as not empty
C10_Witness ==
    /\ pc = "done" /\ run = 2 /\ faulted = {} /\ envAdds = 0
    /\ DirsWith(prevLog, "dry-run empty dir") # {}
    /\ DirsWith(prevLog, "dry-run empty dir") # DirsWith(log, "removed empty dir")
    /\ \E i \in 1..Len(prevLog) : prevLog[i].msg = "dry-run"

====
